---- MODULE Spec2Model ----
(***************************************************************************)
(* Model of tools/butteraugli_pnorm.cc: the p-norm aggregation of a        *)
(* distance map (ComputeDistanceP), the weighted sum of squared            *)
(* differences of two colour images (ComputeDistance2) and the exported    *)
(* entry points that forward to the selected target's variant.             *)
(*                                                                         *)
(* Pixel values are small naturals and all arithmetic is exact.  The       *)
(* weights 1/8, 6/8, 1/8 are kept in eighths, so every ComputeDistance2    *)
(* quantity is 8 times the value of the code.  The value returned by       *)
(* ComputeDistanceP is kept in the form of its three accumulated power     *)
(* sums, the pixel count that normalises them and the exponent p: the      *)
(* returned double is a function of these.  The exponent p is integral,    *)
(* so that std::abs(p - 3.0) < 1E-6 is p = 3.  Sizes are naturals: the     *)
(* differences xsize - border and ysize - border of size_t values are      *)
(* shown not to underflow (C5).                                            *)
(*                                                                         *)
(* Three specifications share the variables: SpecD2 steps through one      *)
(* call of ComputeDistance2, SpecP makes calls of ComputeDistanceP on two  *)
(* maps of one size, and SpecProc has several threads call the exported    *)
(* functions of one process.                                               *)
(***************************************************************************)
EXTENDS Integers, Sequences, FiniteSets, TLC

\* ---------------------------------------------------------------- bounds
\* Largest width and height of the colour images given to ComputeDistance2.
MaxDim2 == 5
\* Largest number of lanes of a vector (Lanes(d)); 1 is the scalar target.
MaxLanes == 4
\* Largest width and height of the distance maps given to ComputeDistanceP.
MaxDimP == 19
\* Number of threads calling the exported functions, and of calls they make.
NThreads == 2
MaxCalls == 3

LaneCounts == 1..MaxLanes

VARIABLES
    \* ComputeDistance2: the arguments, the locals and the position in the body
    ib1, ib2, srgb1, srgb2, lanes, pc, cy, sum_total, result, retval, reads,
    \* ComputeDistanceP: the maps and exponent the calls are made with, and what
    \* each call returned
    distmap, distmap2, p, ret,
    \* the process: the function-local static counter of the slow path and the
    \* number of warnings written to stderr
    once, warnings,
    \* the process: the vector targets the CPU supports, the dispatcher's cached
    \* selection per exported function, the threads, the number of calls made
    \* and the (function, variant) pairs calls were forwarded to
    supported, chosen, thr, ncalls, forwarded

d2vars == <<ib1, ib2, srgb1, srgb2, pc, cy, sum_total, result, retval, reads>>
pvars == <<distmap, distmap2, p, ret>>
warnvars == <<once, warnings>>
procvars == <<supported, chosen, thr, ncalls, forwarded>>
vars == <<d2vars, lanes, pvars, warnvars, procvars>>

\* ------------------------------------------------------------- hwy helpers
\* Zero(d): a vector of N lanes, all zero.
Zero(N) == [i \in 0..(N - 1) |-> 0]

RECURSIVE SumLanesFrom(_, _, _)
SumLanesFrom(v, i, N) == IF i >= N THEN 0 ELSE v[i] + SumLanesFrom(v, i + 1, N)

\* GetLane(SumOfLanes(v)): the horizontal sum of a vector of N lanes.
SumOfLanes(v, N) == SumLanesFrom(v, 0, N)

\* ------------------------------------------------------- ComputeDistanceP
\* size_t border = (params.approximate_border) ? 8 : 0;
Border == 8

\* The pixel (x, y) of an input map of size xs * ys: the pixels nearer than
\* Border to an edge hold the band value o, the others the value c; a textured
\* band or interior varies with the position.
InBand(x, y, xs, ys) ==
    x < Border \/ x >= xs - Border \/ y < Border \/ y >= ys - Border

MapPix(x, y, xs, ys, c, o, tex, btex) ==
    IF InBand(x, y, xs, ys)
    THEN (IF btex THEN (o + x + 2 * y) % 4 ELSE o)
    ELSE (IF tex THEN (c + x + y) % 3 ELSE c)

\* An ImageF: ysize rows of xsize values.
MakeImageF(xs, ys, c, o, tex, btex) ==
    [xsize |-> xs, ysize |-> ys,
     row |-> [y \in 0..(ys - 1) |-> [x \in 0..(xs - 1) |->
                 MapPix(x, y, xs, ys, c, o, tex, btex)]]]

\* A variant that never excludes a border.
EffectiveBorderNone(xsize, ysize, approximate_border) == 0

\* A variant whose test for a tiny image is strict (< for <=).
EffectiveBorderStrict(xsize, ysize, approximate_border) ==
    LET border == IF approximate_border THEN Border ELSE 0
    IN  IF xsize < 2 * border \/ ysize < 2 * border THEN 0 ELSE border

\* lines 43-46: the border, dropped to 0 for a tiny image
EffectiveBorder(xsize, ysize, approximate_border) ==
    LET border == IF approximate_border THEN Border ELSE 0
    IN  IF xsize <= 2 * border \/ ysize <= 2 * border THEN 0 ELSE border

\* line 49: std::abs(p - 3.0) < 1E-6, for an integral p
IsFastP(q) == q = 3

\* std::pow(row[x], p) for a natural exponent
RECURSIVE Pow(_, _)
Pow(d, q) == IF q = 0 THEN 1 ELSE d * Pow(d, q - 1)

\* lines 74-86: the vector loop of one row; v holds x, sums0, sums1, sums2
\* and the first column of every group loaded
RECURSIVE FastVectorLoop(_, _, _, _)
FastVectorLoop(row, limit, N, v) ==
    IF v.x + N <= limit
    THEN LET d2 == [i \in 0..(N - 1) |-> row[v.x + i] * row[v.x + i] * row[v.x + i]]
             d3 == [i \in 0..(N - 1) |-> d2[i] * d2[i]]
             d4 == [i \in 0..(N - 1) |-> d3[i] * d3[i]]
         IN  FastVectorLoop(row, limit, N,
                 [x |-> v.x + N,
                  sums0 |-> [i \in 0..(N - 1) |-> v.sums0[i] + d2[i]],
                  sums1 |-> [i \in 0..(N - 1) |-> v.sums1[i] + d3[i]],
                  sums2 |-> [i \in 0..(N - 1) |-> v.sums2[i] + d4[i]],
                  groups |-> Append(v.groups, v.x)])
    ELSE v

\* lines 92-100: the scalar loop over the rest of the row; s holds x and sum1
\* and the columns read
RECURSIVE FastScalarLoop(_, _, _)
FastScalarLoop(row, limit, s) ==
    IF s.x < limit
    THEN LET d1 == row[s.x]
             d2 == d1 * d1 * d1
             d3 == d2 * d2
             d4 == d3 * d3
         IN  FastScalarLoop(row, limit,
                 [x |-> s.x + 1,
                  sum1 |-> <<s.sum1[1] + d2, s.sum1[2] + d3, s.sum1[3] + d4>>,
                  tail |-> Append(s.tail, s.x)])
    ELSE s

\* A variant whose vector loop starts at column 0 instead of border.
FastRowFromZero(row, border, xsize, N, st) ==
    LET v == FastVectorLoop(row, xsize - border, N,
                 [x |-> 0, sums0 |-> Zero(N), sums1 |-> Zero(N),
                  sums2 |-> Zero(N), groups |-> <<>>])
        s == FastScalarLoop(row, xsize - border,
                 [x |-> v.x, sum1 |-> st.sum1, tail |-> <<>>])
    IN  [y |-> st.y + 1,
         sum1 |-> s.sum1,
         sum_totals0 |-> [i \in 0..(N - 1) |-> v.sums0[i] + st.sum_totals0[i]],
         sum_totals1 |-> [i \in 0..(N - 1) |-> v.sums1[i] + st.sum_totals1[i]],
         sum_totals2 |-> [i \in 0..(N - 1) |-> v.sums2[i] + st.sum_totals2[i]],
         log |-> Append(st.log, [y |-> st.y, groups |-> v.groups, tail |-> s.tail])]

\* A variant whose scalar loop starts again at border instead of continuing
\* where the vector loop stopped.
FastRowRescan(row, border, xsize, N, st) ==
    LET v == FastVectorLoop(row, xsize - border, N,
                 [x |-> border, sums0 |-> Zero(N), sums1 |-> Zero(N),
                  sums2 |-> Zero(N), groups |-> <<>>])
        s == FastScalarLoop(row, xsize - border,
                 [x |-> border, sum1 |-> st.sum1, tail |-> <<>>])
    IN  [y |-> st.y + 1,
         sum1 |-> s.sum1,
         sum_totals0 |-> [i \in 0..(N - 1) |-> v.sums0[i] + st.sum_totals0[i]],
         sum_totals1 |-> [i \in 0..(N - 1) |-> v.sums1[i] + st.sum_totals1[i]],
         sum_totals2 |-> [i \in 0..(N - 1) |-> v.sums2[i] + st.sum_totals2[i]],
         log |-> Append(st.log, [y |-> st.y, groups |-> v.groups, tail |-> s.tail])]

\* lines 67-100: the body of the loop over y of the fast path
FastRow(row, border, xsize, N, st) ==
    LET v == FastVectorLoop(row, xsize - border, N,
                 [x |-> border, sums0 |-> Zero(N), sums1 |-> Zero(N),
                  sums2 |-> Zero(N), groups |-> <<>>])
        s == FastScalarLoop(row, xsize - border,
                 [x |-> v.x, sum1 |-> st.sum1, tail |-> <<>>])
    IN  [y |-> st.y + 1,
         sum1 |-> s.sum1,
         sum_totals0 |-> [i \in 0..(N - 1) |-> v.sums0[i] + st.sum_totals0[i]],
         sum_totals1 |-> [i \in 0..(N - 1) |-> v.sums1[i] + st.sum_totals1[i]],
         sum_totals2 |-> [i \in 0..(N - 1) |-> v.sums2[i] + st.sum_totals2[i]],
         log |-> Append(st.log, [y |-> st.y, groups |-> v.groups, tail |-> s.tail])]

\* line 66: for (size_t y = border; y < distmap.ysize() - border; ++y)
RECURSIVE FastRows(_, _, _, _)
FastRows(map, border, N, st) ==
    IF st.y < map.ysize - border
    THEN FastRows(map, border, N, FastRow(map.row[st.y], border, map.xsize, N, st))
    ELSE st

\* lines 50-113: the fast path
FastPath(map, border, q, N) ==
    LET st == FastRows(map, border, N,
                  [y |-> border, sum1 |-> <<0, 0, 0>>, sum_totals0 |-> Zero(N),
                   sum_totals1 |-> Zero(N), sum_totals2 |-> Zero(N), log |-> <<>>])
    IN  [path |-> "fast", border |-> border, p |-> q,
         pixels |-> map.ysize * map.xsize,
         sum |-> <<st.sum1[1] + SumOfLanes(st.sum_totals0, N),
                   st.sum1[2] + SumOfLanes(st.sum_totals1, N),
                   st.sum1[3] + SumOfLanes(st.sum_totals2, N)>>,
         log |-> st.log]

\* A variant of the slow loop that forgets the second squaring step's operand
\* (d2 *= d2 applied once: the third sum accumulates d^(3p) instead of d^(4p)).
RECURSIVE SlowColsThirdPower(_, _, _, _)
SlowColsThirdPower(row, limit, q, s) ==
    IF s.x < limit
    THEN LET d2 == Pow(row[s.x], q)
             d3 == d2 * d2
             d4 == d3 * d2
         IN  SlowColsThirdPower(row, limit, q,
                 [x |-> s.x + 1,
                  sum1 |-> <<s.sum1[1] + d2, s.sum1[2] + d3, s.sum1[3] + d4>>,
                  tail |-> Append(s.tail, s.x)])
    ELSE s

\* lines 122-129: the loop over x of the slow path
RECURSIVE SlowCols(_, _, _, _)
SlowCols(row, limit, q, s) ==
    IF s.x < limit
    THEN LET d2 == Pow(row[s.x], q)
             d3 == d2 * d2
             d4 == d3 * d3
         IN  SlowCols(row, limit, q,
                 [x |-> s.x + 1,
                  sum1 |-> <<s.sum1[1] + d2, s.sum1[2] + d3, s.sum1[3] + d4>>,
                  tail |-> Append(s.tail, s.x)])
    ELSE s

\* lines 120-130: the loop over y of the slow path
RECURSIVE SlowRows(_, _, _, _)
SlowRows(map, border, q, st) ==
    IF st.y < map.ysize - border
    THEN LET s == SlowCols(map.row[st.y], map.xsize - border, q,
                      [x |-> border, sum1 |-> st.sum1, tail |-> <<>>])
         IN  SlowRows(map, border, q,
                 [y |-> st.y + 1,
                  sum1 |-> s.sum1,
                  log |-> Append(st.log, [y |-> st.y, groups |-> <<>>, tail |-> s.tail])])
    ELSE st

\* lines 119-136: the slow path, after the warning
SlowPath(map, border, q) ==
    LET st == SlowRows(map, border, q,
                  [y |-> border, sum1 |-> <<0, 0, 0>>, log |-> <<>>])
    IN  [path |-> "slow", border |-> border, p |-> q,
         pixels |-> map.ysize * map.xsize,
         sum |-> st.sum1,
         log |-> st.log]

\* lines 36-138: what a call returns
ComputeDistanceP(map, approximate_border, q, N) ==
    LET border == EffectiveBorder(map.xsize, map.ysize, approximate_border)
    IN  IF IsFastP(q) THEN FastPath(map, border, q, N) ELSE SlowPath(map, border, q)

\* std::atomic<int>: fetch_add wraps from INT_MAX to INT_MIN
INT_MAX == 2147483647
FetchAdd1(v) == IF v = INT_MAX THEN (0 - INT_MAX) - 1 ELSE v + 1

\* A variant whose counter is incremented before the paths part.
TouchesOnceAlways(q) == TRUE

\* lines 114-116: the else branch, the slow path, holds the static counter
TouchesOnce(q) == ~IsFastP(q)

\* lines 115-118: the counter and stderr after a call with exponent q
OnceAfter(q, v) == IF TouchesOnce(q) THEN FetchAdd1(v) ELSE v
WarningsAfter(q, v, w) == IF TouchesOnce(q) /\ v = 0 THEN w + 1 ELSE w

NoRet == [path |-> "none"]
Calls == {"A_border", "A_full", "B_border"}
CallMap(k) == IF k = "B_border" THEN distmap2 ELSE distmap
CallApprox(k) == k # "A_full"

PDims == {1, 5} \cup ((2 * Border)..MaxDimP)
PValues == {1, 2, 3}

PInputs ==
    /\ \E xs \in PDims, ys \in PDims, c \in {0, 2}, c2 \in {0, 2}, tex \in BOOLEAN :
          /\ distmap = MakeImageF(xs, ys, c, 3, tex, tex)
          /\ distmap2 = MakeImageF(xs, ys, c2, 0, tex, ~tex)
    /\ p \in PValues
    /\ lanes \in LaneCounts
    /\ ret = [k \in Calls |-> NoRet]
    /\ once = 0
    /\ warnings = 0

PIdle ==
    /\ distmap = MakeImageF(0, 0, 0, 0, FALSE, FALSE)
    /\ distmap2 = MakeImageF(0, 0, 0, 0, FALSE, FALSE)
    /\ p = 3
    /\ ret = [k \in Calls |-> NoRet]

WarnIdle == once = 0 /\ warnings = 0

ProcIdle ==
    /\ supported = {}
    /\ chosen = [f \in {"ComputeDistanceP", "ComputeDistance2"} |-> "unset"]
    /\ thr = <<>>
    /\ ncalls = 0
    /\ forwarded = {}

\* A call that takes the fast path: lines 43-113
CallFast(k) ==
    /\ ret[k] = NoRet
    /\ IsFastP(p)
    /\ ret' = [ret EXCEPT ![k] = ComputeDistanceP(CallMap(k), CallApprox(k), p, lanes)]
    /\ once' = OnceAfter(p, once)
    /\ warnings' = WarningsAfter(p, once, warnings)
    /\ UNCHANGED <<distmap, distmap2, p, lanes, d2vars, procvars>>

\* A call that takes the slow path: lines 43-48 and 114-136
CallSlow(k) ==
    /\ ret[k] = NoRet
    /\ ~IsFastP(p)
    /\ ret' = [ret EXCEPT ![k] = ComputeDistanceP(CallMap(k), CallApprox(k), p, lanes)]
    /\ once' = OnceAfter(p, once)
    /\ warnings' = WarningsAfter(p, once, warnings)
    /\ UNCHANGED <<distmap, distmap2, p, lanes, d2vars, procvars>>

PNext == \E k \in Calls : CallFast(k) \/ CallSlow(k)

\* ------------------------------------------------------- ComputeDistance2
NoImage == [xsize |-> 0 - 1, ysize |-> 0 - 1]

\* The pixel (c, y, x) of the input image of a given kind: a base image, the
\* base image with plane 1 raised by 2, and an unrelated image.
Pix(kind, c, y, x) ==
    LET base == 1 + ((c + 2 * y + 3 * x) % 3)
    IN  CASE kind = 0 -> base
          [] kind = 1 -> base + (IF c = 1 THEN 2 ELSE 0)
          [] OTHER    -> (base * (x + 1) + y + c) % 5

\* An Image3F: three planes of ysize rows of xsize values.
MakeImage3F(xs, ys, kind) ==
    [xsize |-> xs, ysize |-> ys,
     plane |-> [c \in 0..2 |-> [y \in 0..(ys - 1) |-> [x \in 0..(xs - 1) |->
                    Pix(kind, c, y, x)]]]]

\* ImageBundle::CopyTo(Rect(ib), ColorEncoding::SRGB(..), &copy): a pixelwise
\* transfer function over the whole rectangle; the copy has the size of ib.
ToSRGB(v) == 2 * v + 1

CopyTo(color) ==
    [xsize |-> color.xsize, ysize |-> color.ysize,
     plane |-> [c \in 0..2 |-> [y \in 0..(color.ysize - 1) |->
                  [x \in 0..(color.xsize - 1) |-> ToSRGB(color.plane[c][y][x])]]]]

\* A variant that compares the widths only.
SameSizeWidthOnly(a, b) == a.xsize = b.xsize

\* line 157: SameSize(*srgb1, *srgb2)
SameSize(a, b) == a.xsize = b.xsize /\ a.ysize = b.ysize

\* weights[3] = {1/8, 6/8, 1/8}, in eighths
weights == <<1, 6, 1>>

\* for (; x + N <= srgb1->xsize(); x += N) sums += diff * diff * weight;
RECURSIVE D2VectorLoop(_, _, _, _, _, _, _)
D2VectorLoop(row1, row2, x, xsize, N, weight, sums) ==
    IF x + N <= xsize
    THEN D2VectorLoop(row1, row2, x + N, xsize, N, weight,
             [i \in 0..(N - 1) |->
                 sums[i] + (row1[x + i] - row2[x + i]) * (row1[x + i] - row2[x + i]) * weight])
    ELSE [x |-> x, sums |-> sums]

\* for (; x < srgb1->xsize(); ++x) result += diff * diff * weights[c];
RECURSIVE D2ScalarLoop(_, _, _, _, _, _)
D2ScalarLoop(row1, row2, x, xsize, weight, res) ==
    IF x < xsize
    THEN D2ScalarLoop(row1, row2, x + 1, xsize, weight,
             res + (row1[x] - row2[x]) * (row1[x] - row2[x]) * weight)
    ELSE res

\* A variant that forgets the tail of the row.
D2TailNone(v, xsize) == xsize

\* line 184: the scalar loop starts at the x the vector loop stopped at.
D2TailStart(v, xsize) == v.x

\* The body of the loop over y for one row of plane c (lines 170-188).
D2Row(a, b, c, y, N, total, res) ==
    LET row1 == a.plane[c][y]
        row2 == b.plane[c][y]
        v == D2VectorLoop(row1, row2, 0, a.xsize, N, weights[c + 1], Zero(N))
        x0 == D2TailStart(v, a.xsize)
    IN  [sum_total |-> [i \in 0..(N - 1) |-> v.sums[i] + total[i]],
         result |-> D2ScalarLoop(row1, row2, x0, a.xsize, weights[c + 1], res),
         reads |-> (v.x - 0) + (a.xsize - x0)]

\* The loop position after row y of plane c, and the first one.
NextPos(c, y, ysize) == IF y + 1 < ysize THEN <<c, y + 1>> ELSE <<c + 1, 0>>
FirstPos(ysize) == IF ysize = 0 THEN <<3, 0>> ELSE <<0, 0>>

Encodings == {"sRGB", "linear", "unconvertible"}

D2Init ==
    /\ \E w1 \in 0..MaxDim2, h1 \in 0..MaxDim2, e1 \in Encodings :
          ib1 = [color |-> MakeImage3F(w1, h1, 0), encoding |-> e1]
    /\ \E w2 \in 0..MaxDim2, h2 \in 0..MaxDim2, k2 \in 0..2, e2 \in {"sRGB", "linear"} :
          ib2 = [color |-> MakeImage3F(w2, h2, k2), encoding |-> e2]
    /\ lanes \in LaneCounts
    /\ srgb1 = NoImage
    /\ srgb2 = NoImage
    /\ pc = "entry"
    /\ cy = <<0, 0>>
    /\ sum_total = Zero(lanes)
    /\ result = 0
    /\ retval = 0 - 1
    /\ reads = 0
    /\ PIdle
    /\ WarnIdle
    /\ ProcIdle

\* lines 144-149: srgb1 = &ib1.color(), or the converted copy1
D2Convert1 ==
    /\ pc = "entry"
    /\ IF ib1.encoding = "sRGB"
       THEN srgb1' = ib1.color /\ pc' = "converted1"
       ELSE IF ib1.encoding = "linear"
            THEN srgb1' = CopyTo(ib1.color) /\ pc' = "converted1"
            ELSE srgb1' = srgb1 /\ pc' = "abort"
    /\ UNCHANGED <<ib1, ib2, srgb2, lanes, cy, sum_total, result, retval, reads>>
    /\ UNCHANGED <<pvars, warnvars, procvars>>

\* lines 150-155: srgb2 = &ib2.color(), or the converted copy2
D2Convert2 ==
    /\ pc = "converted1"
    /\ IF ib2.encoding = "sRGB"
       THEN srgb2' = ib2.color /\ pc' = "converted2"
       ELSE IF ib2.encoding = "linear"
            THEN srgb2' = CopyTo(ib2.color) /\ pc' = "converted2"
            ELSE srgb2' = srgb2 /\ pc' = "abort"
    /\ UNCHANGED <<ib1, ib2, srgb1, lanes, cy, sum_total, result, retval, reads>>
    /\ UNCHANGED <<pvars, warnvars, procvars>>

\* line 157: JXL_CHECK(SameSize(*srgb1, *srgb2)), then lines 159-163
D2Check ==
    /\ pc = "converted2"
    /\ IF SameSize(srgb1, srgb2)
       THEN pc' = "loop" /\ cy' = FirstPos(srgb1.ysize)
       ELSE pc' = "abort" /\ cy' = cy
    /\ UNCHANGED <<ib1, ib2, srgb1, srgb2, lanes, sum_total, result, retval, reads>>
    /\ UNCHANGED <<pvars, warnvars, procvars>>

\* lines 167-189: one row of one plane
D2RowStep ==
    /\ pc = "loop"
    /\ cy[1] < 3
    /\ LET r == D2Row(srgb1, srgb2, cy[1], cy[2], lanes, sum_total, result)
       IN  /\ sum_total' = r.sum_total
           /\ result' = r.result
           /\ reads' = reads + r.reads
    /\ cy' = NextPos(cy[1], cy[2], srgb1.ysize)
    /\ UNCHANGED <<ib1, ib2, srgb1, srgb2, lanes, pc, retval>>
    /\ UNCHANGED <<pvars, warnvars, procvars>>

\* lines 190-191
D2Return ==
    /\ pc = "loop"
    /\ cy[1] = 3
    /\ retval' = SumOfLanes(sum_total, lanes) + result
    /\ pc' = "returned"
    /\ UNCHANGED <<ib1, ib2, srgb1, srgb2, lanes, cy, sum_total, result, reads>>
    /\ UNCHANGED <<pvars, warnvars, procvars>>

D2Next == D2Convert1 \/ D2Convert2 \/ D2Check \/ D2RowStep \/ D2Return

SpecD2 == D2Init /\ [][D2Next]_vars

D2Idle ==
    /\ ib1 = [color |-> MakeImage3F(0, 0, 0), encoding |-> "sRGB"]
    /\ ib2 = [color |-> MakeImage3F(0, 0, 0), encoding |-> "sRGB"]
    /\ srgb1 = NoImage
    /\ srgb2 = NoImage
    /\ pc = "entry"
    /\ cy = <<0, 0>>
    /\ sum_total = Zero(1)
    /\ result = 0
    /\ retval = 0 - 1
    /\ reads = 0

PInit == PInputs /\ D2Idle /\ ProcIdle

SpecP == PInit /\ [][PNext]_vars

\* ------------------------------------------- properties of ComputeDistanceP
Done(k) == ret[k] # NoRet
Large(map) == map.xsize > 2 * Border /\ map.ysize > 2 * Border

\* Two returned values are the same double: the same three power sums,
\* normalised by the same pixel count, with the same exponent.
SameValue(r1, r2) == r1.sum = r2.sum /\ r1.pixels = r2.pixels /\ r1.p = r2.p

\* The pixels that are at distance >= Border from every edge.
Interior(map) ==
    {yx \in (0..(map.ysize - 1)) \X (0..(map.xsize - 1)) :
        ~InBand(yx[2], yx[1], map.xsize, map.ysize)}

InteriorConst(map) ==
    \A yx \in Interior(map) : map.row[yx[1]][yx[2]] = map.row[Border][Border]

AgreeInterior(m1, m2) ==
    /\ m1.xsize = m2.xsize
    /\ m1.ysize = m2.ysize
    /\ \A yx \in Interior(m1) : m1.row[yx[1]][yx[2]] = m2.row[yx[1]][yx[2]]

\* The sum of d^e over the columns x0 .. x1-1 of a row, and over the rows
\* y0 .. y1-1 of a map.
RECURSIVE RowPowerSum(_, _, _, _)
RowPowerSum(row, x0, x1, e) ==
    IF x0 >= x1 THEN 0 ELSE Pow(row[x0], e) + RowPowerSum(row, x0 + 1, x1, e)

RECURSIVE RegionPowerSum(_, _, _, _, _, _)
RegionPowerSum(map, y0, y1, x0, x1, e) ==
    IF y0 >= y1 THEN 0
    ELSE RowPowerSum(map.row[y0], x0, x1, e) + RegionPowerSum(map, y0 + 1, y1, x0, x1, e)

\* C3, as stated: with approximateBorder=true on a map larger than 16 in both
\* dimensions whose interior is the constant c, ComputeDistanceP(p=3) returns
\* the value it returns with approximateBorder=false for the map that is c
\* everywhere: the normalised power sums are c^3, c^6, c^12.
C3_AsStated ==
    (Done("A_border") /\ Large(distmap) /\ p = 3 /\ InteriorConst(distmap)) =>
        LET c == distmap.row[Border][Border]
            flat == MakeImageF(distmap.xsize, distmap.ysize, c, c, FALSE, FALSE)
        IN  /\ SameValue(ret["A_border"], ComputeDistanceP(flat, FALSE, p, lanes))
            /\ ret["A_border"].sum =
                 <<Pow(c, 3) * ret["A_border"].pixels, Pow(c, 6) * ret["A_border"].pixels,
                   Pow(c, 12) * ret["A_border"].pixels>>

\* C3, corrected: in that case the band does not influence the result, which is
\* the value returned with approximateBorder=false for the map that is c in the
\* interior and 0 in the band: the power sums are (W-16)(H-16) times c^3, c^6,
\* c^12 and are normalised by the pixel count W*H of the whole map.
C3_BorderExcludedButCounted ==
    (Done("A_border") /\ Large(distmap) /\ p = 3 /\ InteriorConst(distmap)) =>
        LET c == distmap.row[Border][Border]
            n == (distmap.xsize - 2 * Border) * (distmap.ysize - 2 * Border)
            zeroed == MakeImageF(distmap.xsize, distmap.ysize, c, 0, FALSE, FALSE)
        IN  /\ SameValue(ret["A_border"], ComputeDistanceP(zeroed, FALSE, p, lanes))
            /\ ret["A_border"].sum = <<Pow(c, 3) * n, Pow(c, 6) * n, Pow(c, 12) * n>>
            /\ ret["A_border"].pixels = distmap.xsize * distmap.ysize

C3_Witness ==
    /\ Done("A_border") /\ Large(distmap) /\ p = 3 /\ InteriorConst(distmap)
    /\ distmap.row[Border][Border] = 2
    /\ distmap.row[0][0] = 3
    /\ distmap.xsize > 2 * Border + 1
    /\ ret["A_border"].path = "fast"

\* C4: with approximateBorder=true and both dimensions greater than 16, two
\* maps of the same size that agree on every interior pixel give the same three
\* power sums and the same returned value, on the fast and on the slow path.
C4_BandIndependence ==
    (Done("A_border") /\ Done("B_border") /\ Large(distmap)
        /\ AgreeInterior(distmap, distmap2)) =>
        /\ ret["A_border"].sum = ret["B_border"].sum
        /\ SameValue(ret["A_border"], ret["B_border"])
        /\ ret["A_border"].log = ret["B_border"].log

C4_Witness ==
    /\ Done("A_border") /\ Done("B_border") /\ Large(distmap)
    /\ AgreeInterior(distmap, distmap2)
    /\ \E x \in 0..(distmap.xsize - 1) : distmap.row[0][x] # distmap2.row[0][x]
    /\ ret["A_border"].sum[1] > 0
    /\ ret["A_border"].path = "slow"

\* C5: for a map whose width or height is <= 16, approximateBorder=true
\* returns what approximateBorder=false returns; the border of every call is 0
\* or 8, and when it is 8 it is less than half of both dimensions, so that
\* xsize - border and ysize - border do not underflow.
C5_SmallImageExemption ==
    /\ (Done("A_border") /\ Done("A_full") /\ ~Large(distmap)) =>
          /\ SameValue(ret["A_border"], ret["A_full"])
          /\ ret["A_border"].border = 0
          /\ ret["A_border"].log = ret["A_full"].log
    /\ \A k \in Calls : Done(k) =>
          /\ ret[k].border \in {0, Border}
          /\ ret[k].border = Border =>
                (2 * Border < CallMap(k).xsize /\ 2 * Border < CallMap(k).ysize)
          /\ ret[k].border = Border => CallApprox(k)
          /\ CallMap(k).xsize - ret[k].border >= ret[k].border
          /\ CallMap(k).ysize - ret[k].border >= ret[k].border

C5_Witness ==
    /\ Done("A_border") /\ Done("A_full")
    /\ distmap.xsize = 2 * Border /\ distmap.ysize > 2 * Border
    /\ ret["A_full"].sum[1] > 0
    /\ Done("B_border") /\ ret["B_border"].border = 0

\* The pixels a call read, from its log.
Included(r, N) ==
    UNION {{<<r.log[j].y, r.log[j].groups[g] + i>> :
                g \in 1..Len(r.log[j].groups), i \in 0..(N - 1)}
           \cup {<<r.log[j].y, r.log[j].tail[t]>> : t \in 1..Len(r.log[j].tail)} :
           j \in 1..Len(r.log)}

\* C9: the fast path and the slow path agree: on the same map and params the
\* slow path run with exponent 3 reads the same pixels, normalises by the same
\* pixel count and accumulates the same three power sums as the fast path.
C9_FastSlowAgree ==
    \A k \in Calls : (Done(k) /\ ret[k].path = "fast") =>
        LET slow == SlowPath(CallMap(k),
                        EffectiveBorder(CallMap(k).xsize, CallMap(k).ysize, CallApprox(k)), 3)
        IN  /\ slow.sum = ret[k].sum
            /\ slow.pixels = ret[k].pixels
            /\ slow.border = ret[k].border
            /\ Included(slow, 1) = Included(ret[k], lanes)

C9_Witness ==
    /\ Done("A_border") /\ ret["A_border"].path = "fast"
    /\ ret["A_border"].border = Border
    /\ lanes = 2
    /\ distmap.xsize = 2 * Border + 3
    /\ ret["A_border"].sum[1] > 9

\* How often a row's log reads column x.
Visits(entry, x, N) ==
    Cardinality({g \in 1..Len(entry.groups) :
                    entry.groups[g] <= x /\ x < entry.groups[g] + N})
    + Cardinality({t \in 1..Len(entry.tail) : entry.tail[t] = x})

\* C10: in the fast path the rows border .. ysize-border-1 are each processed
\* once; in each the vector loop loads disjoint groups of N columns that lie in
\* [border, xsize-border), the scalar loop reads the columns left over, every
\* column of [border, xsize-border) is read exactly once and no other is; and
\* the totals are the sums of d^3, d^6, d^12 over exactly these pixels.
C10_EachColumnOnce ==
    \A k \in Calls : (Done(k) /\ ret[k].path = "fast") =>
        LET r == ret[k]
            map == CallMap(k)
            lo == r.border
            hi == map.xsize - r.border
        IN  /\ Len(r.log) = map.ysize - 2 * r.border
            /\ \A j \in 1..Len(r.log) :
                  LET e == r.log[j]
                  IN  /\ e.y = r.border + j - 1
                      /\ \A g \in 1..Len(e.groups) :
                            /\ e.groups[g] = lo + (g - 1) * lanes
                            /\ e.groups[g] + lanes <= hi
                      /\ Len(e.groups) = (hi - lo) \div lanes
                      /\ \A t \in 1..Len(e.tail) :
                            e.tail[t] = lo + Len(e.groups) * lanes + t - 1
                      /\ \A x \in 0..(map.xsize - 1) :
                            Visits(e, x, lanes) = (IF lo <= x /\ x < hi THEN 1 ELSE 0)
            /\ r.sum = <<RegionPowerSum(map, lo, map.ysize - r.border, lo, hi, 3),
                         RegionPowerSum(map, lo, map.ysize - r.border, lo, hi, 6),
                         RegionPowerSum(map, lo, map.ysize - r.border, lo, hi, 12)>>

C10_Witness ==
    /\ Done("A_full") /\ ret["A_full"].path = "fast"
    /\ lanes = 4
    /\ distmap.xsize = 5
    /\ Len(ret["A_full"].log) > 1
    /\ Len(ret["A_full"].log[1].groups) = 1
    /\ Len(ret["A_full"].log[1].tail) = 1
    /\ Done("A_border") /\ Done("B_border")

\* ------------------------------------------- properties of ComputeDistance2
\* The sum of (a - b)^2 over the columns x0 .. xsize-1 of two rows.
RECURSIVE RowSSD(_, _, _, _)
RowSSD(row1, row2, x0, xsize) ==
    IF x0 >= xsize THEN 0
    ELSE (row1[x0] - row2[x0]) * (row1[x0] - row2[x0]) + RowSSD(row1, row2, x0 + 1, xsize)

RECURSIVE PlaneSSD(_, _, _, _)
PlaneSSD(a, b, c, y0) ==
    IF y0 >= a.ysize THEN 0
    ELSE RowSSD(a.plane[c][y0], b.plane[c][y0], 0, a.xsize) + PlaneSSD(a, b, c, y0 + 1)

\* 8 * sum over c, y, x of weight[c] * (A[c][y][x] - B[c][y][x])^2
WeightedSSD(a, b) == 1 * PlaneSSD(a, b, 0, 0) + 6 * PlaneSSD(a, b, 1, 0) + 1 * PlaneSSD(a, b, 2, 0)

\* C1: for two images of equal size and any lane count, ComputeDistance2
\* returns the sum over the three planes and every pixel of
\* weight[c] * (A - B)^2 with weights 1/8, 6/8, 1/8: every pixel of every plane
\* is read once, and the sum is not divided by the pixel count.
C1_WeightedSum ==
    (pc = "returned") =>
        /\ retval = WeightedSSD(srgb1, srgb2)
        /\ reads = 3 * srgb1.xsize * srgb1.ysize

\* Two 4x4 images that differ by 2 in plane 1 only give 48 (384 eighths), with
\* a lane count that does not divide the width.
C1_Witness ==
    /\ pc = "returned"
    /\ srgb1.xsize = 4 /\ srgb1.ysize = 4
    /\ lanes = 3
    /\ \A y \in 0..3, x \in 0..3 :
          /\ srgb2.plane[1][y][x] = srgb1.plane[1][y][x] + 2
          /\ srgb2.plane[0][y][x] = srgb1.plane[0][y][x]
          /\ srgb2.plane[2][y][x] = srgb1.plane[2][y][x]
    /\ retval = 8 * 48

Converted == pc \notin {"entry", "converted1"} /\ srgb1 # NoImage /\ srgb2 # NoImage

\* C2: when the two images differ in width or height after the conversion, the
\* call aborts and returns no value, and the size check precedes every read of
\* a pixel by the accumulation.
C2_MismatchAborts ==
    /\ (Converted /\ ~(srgb1.xsize = srgb2.xsize /\ srgb1.ysize = srgb2.ysize)) =>
          /\ pc \in {"converted2", "abort"}
          /\ retval = 0 - 1
          /\ reads = 0
    /\ (pc = "converted2") => (reads = 0 /\ ENABLED D2Check)
    /\ (pc = "abort") => (reads = 0 /\ retval = 0 - 1 /\ ~ENABLED D2Next)
    /\ (reads > 0 \/ pc = "returned") =>
          (srgb1.xsize = srgb2.xsize /\ srgb1.ysize = srgb2.ysize)

C2_Witness ==
    /\ pc = "abort"
    /\ Converted
    /\ srgb1.xsize = 4 /\ srgb1.ysize = 4
    /\ srgb2.xsize = 5 /\ srgb2.ysize = 5
    /\ reads = 0

\* ------------------------------------------------ the exported entry points
\* lines 141-192 as one call: the value returned, or the abort of a JXL_CHECK
RECURSIVE D2Rows(_, _, _, _)
D2Rows(a, b, N, st) ==
    IF st.cy[1] < 3
    THEN D2Rows(a, b, N,
             LET r == D2Row(a, b, st.cy[1], st.cy[2], N, st.sum_total, st.result)
             IN  [cy |-> NextPos(st.cy[1], st.cy[2], a.ysize),
                  sum_total |-> r.sum_total, result |-> r.result])
    ELSE st

ComputeDistance2(b1, b2, N) ==
    IF b1.encoding = "unconvertible" \/ b2.encoding = "unconvertible"
    THEN [path |-> "abort"]
    ELSE LET s1 == IF b1.encoding = "sRGB" THEN b1.color ELSE CopyTo(b1.color)
             s2 == IF b2.encoding = "sRGB" THEN b2.color ELSE CopyTo(b2.color)
         IN  IF ~SameSize(s1, s2)
             THEN [path |-> "abort"]
             ELSE LET st == D2Rows(s1, s2, N,
                               [cy |-> FirstPos(s1.ysize), sum_total |-> Zero(N),
                                result |-> 0])
                  IN  [path |-> "distance2",
                       value |-> SumOfLanes(st.sum_total, N) + st.result]

Threads == 1..NThreads
Functions == {"ComputeDistanceP", "ComputeDistance2"}
VectorTargets == {"SSE4", "AVX2"}

\* A dispatcher without the scalar fallback.
ChooseTargetNoFallback(sup) == IF "AVX2" \in sup THEN "AVX2" ELSE "SSE4"

\* The best target the CPU supports; the scalar one when it supports no vector
\* target.
ChooseTarget(sup) ==
    IF "AVX2" \in sup THEN "AVX2" ELSE IF "SSE4" \in sup THEN "SSE4" ELSE "SCALAR"

\* Lanes of HWY_FULL(double) (ComputeDistanceP) and of HWY_FULL(float)
\* (ComputeDistance2) on a target.
LanesOf(f, target) ==
    LET base == CASE target = "SCALAR" -> 1 [] target = "SSE4" -> 2 [] OTHER -> 4
    IN  IF f = "ComputeDistanceP" \/ target = "SCALAR" THEN base ELSE 2 * base

IdleThread ==
    [pc |-> "idle", fn |-> "none", q |-> 0, approx |-> FALSE, variant |-> "none",
     old |-> 0, out |-> NoRet]

ProcInit ==
    /\ distmap = MakeImageF(3, 2, 2, 3, FALSE, TRUE)
    /\ distmap2 = distmap
    /\ p = 3
    /\ ret = [k \in Calls |-> NoRet]
    /\ ib1 = [color |-> MakeImage3F(3, 2, 0), encoding |-> "sRGB"]
    /\ ib2 = [color |-> MakeImage3F(3, 2, 1), encoding |-> "linear"]
    /\ srgb1 = NoImage
    /\ srgb2 = NoImage
    /\ pc = "entry"
    /\ cy = <<0, 0>>
    /\ sum_total = Zero(1)
    /\ result = 0
    /\ retval = 0 - 1
    /\ reads = 0
    /\ lanes = 1
    /\ supported \in SUBSET VectorTargets
    /\ thr = [t \in Threads |-> IdleThread]
    /\ ncalls = 0
    \* The process so far: it has called nothing yet; or it has made 2^32 - 1
    \* slow-path calls of ComputeDistanceP, after which the selection for that
    \* function is cached, the warning of the first of them has been printed
    \* and the int counter, having passed INT_MAX, holds -1.
    /\ \/ /\ once = 0
          /\ warnings = 0
          /\ chosen = [f \in Functions |-> "unset"]
          /\ forwarded = {}
       \/ /\ once = 0 - 1
          /\ warnings = 1
          /\ chosen = [f \in Functions |->
                          IF f = "ComputeDistanceP" THEN ChooseTarget(supported)
                          ELSE "unset"]
          /\ forwarded = {<<"ComputeDistanceP", ChooseTarget(supported)>>}

\* lines 201-202, 207: a thread calls an exported function
Enter(t, f, q, ab) ==
    /\ thr[t].pc = "idle"
    /\ ncalls < MaxCalls
    /\ ncalls' = ncalls + 1
    /\ thr' = [thr EXCEPT ![t] = [pc |-> "dispatch", fn |-> f, q |-> q, approx |-> ab,
                                  variant |-> "none", old |-> 0, out |-> NoRet]]
    /\ UNCHANGED <<d2vars, lanes, pvars, warnvars, supported, chosen, forwarded>>

\* lines 203, 208: HWY_DYNAMIC_DISPATCH reads the cached selection
Dispatch(t) ==
    /\ thr[t].pc = "dispatch"
    /\ IF chosen[thr[t].fn] = "unset"
       THEN /\ thr' = [thr EXCEPT ![t].pc = "choose"]
            /\ forwarded' = forwarded
       ELSE /\ thr' = [thr EXCEPT ![t].pc = "body", ![t].variant = chosen[thr[t].fn]]
            /\ forwarded' = forwarded \cup {<<thr[t].fn, chosen[thr[t].fn]>>}
    /\ UNCHANGED <<d2vars, lanes, pvars, warnvars, supported, chosen, ncalls>>

\* first use: the selection is made, cached and the call forwarded to it
Choose(t) ==
    /\ thr[t].pc = "choose"
    /\ LET target == ChooseTarget(supported)
       IN  /\ chosen' = [chosen EXCEPT ![thr[t].fn] = target]
           /\ thr' = [thr EXCEPT ![t].pc = "body", ![t].variant = target]
           /\ forwarded' = forwarded \cup {<<thr[t].fn, target>>}
    /\ UNCHANGED <<d2vars, lanes, pvars, warnvars, supported, ncalls>>

\* lines 43-113: ComputeDistanceP on the fast path
BodyFast(t) ==
    /\ thr[t].pc = "body"
    /\ thr[t].fn = "ComputeDistanceP"
    /\ ~TouchesOnce(thr[t].q)
    /\ thr' = [thr EXCEPT ![t].pc = "idle",
                          ![t].out = ComputeDistanceP(distmap, thr[t].approx, thr[t].q,
                                         LanesOf(thr[t].fn, thr[t].variant))]
    /\ UNCHANGED <<d2vars, lanes, pvars, warnvars, supported, chosen, ncalls, forwarded>>

\* lines 43-48, 115-116: once.fetch_add(1, std::memory_order_relaxed)
FetchAdd(t) ==
    /\ thr[t].pc = "body"
    /\ thr[t].fn = "ComputeDistanceP"
    /\ TouchesOnce(thr[t].q)
    /\ once' = FetchAdd1(once)
    /\ thr' = [thr EXCEPT ![t].pc = "fetched", ![t].old = once]
    /\ UNCHANGED <<d2vars, lanes, pvars, warnings, supported, chosen, ncalls, forwarded>>

\* lines 116-136: the warning when fetch_add returned 0, and the slow loops
SlowRest(t) ==
    /\ thr[t].pc = "fetched"
    /\ warnings' = IF thr[t].old = 0 THEN warnings + 1 ELSE warnings
    /\ thr' = [thr EXCEPT ![t].pc = "idle",
                          ![t].out = SlowPath(distmap,
                                         EffectiveBorder(distmap.xsize, distmap.ysize,
                                                         thr[t].approx),
                                         thr[t].q)]
    /\ UNCHANGED <<d2vars, lanes, pvars, once, supported, chosen, ncalls, forwarded>>

\* lines 141-192: ComputeDistance2
BodyDistance2(t) ==
    /\ thr[t].pc = "body"
    /\ thr[t].fn = "ComputeDistance2"
    /\ thr' = [thr EXCEPT ![t].pc = "idle",
                          ![t].out = ComputeDistance2(ib1, ib2,
                                         LanesOf(thr[t].fn, thr[t].variant))]
    /\ UNCHANGED <<d2vars, lanes, pvars, warnvars, supported, chosen, ncalls, forwarded>>

ProcNext ==
    \E t \in Threads :
        \/ \E q \in {2, 3}, ab \in BOOLEAN : Enter(t, "ComputeDistanceP", q, ab)
        \/ Enter(t, "ComputeDistance2", 0, FALSE)
        \/ Dispatch(t)
        \/ Choose(t)
        \/ BodyFast(t)
        \/ FetchAdd(t)
        \/ SlowRest(t)
        \/ BodyDistance2(t)

SpecProc == ProcInit /\ [][ProcNext]_vars

\* ------------------------------------------------ properties of the process
\* C6, as stated: however many calls take the slow path and however they
\* interleave, the warning is printed once, by the first of them: no later
\* call is handed 0 by the counter, and stderr never holds a second warning.
C6_WarnedOnce ==
    /\ warnings <= 1
    /\ \A t \in Threads : (thr[t].pc = "fetched" /\ thr[t].old = 0) => warnings = 0

\* C7: every call of an exported function is forwarded to one variant, the
\* same for all calls of that function and the one cached for it; it is a
\* target the CPU supports, and the scalar one when the CPU supports no vector
\* target.
C7_OneVariant ==
    /\ \A t \in Threads : thr[t].pc \in {"body", "fetched"} =>
          <<thr[t].fn, thr[t].variant>> \in forwarded
    /\ \A fv \in forwarded, fw \in forwarded : fv[1] = fw[1] => fv[2] = fw[2]
    /\ \A fv \in forwarded :
          /\ chosen[fv[1]] = fv[2]
          /\ fv[2] \in supported \cup {"SCALAR"}
          /\ supported = {} => fv[2] = "SCALAR"

C7_Witness ==
    \E t1 \in Threads, t2 \in Threads :
        /\ thr[t1].pc = "choose"
        /\ thr[t2].pc = "body"
        /\ thr[t1].fn = thr[t2].fn
        /\ chosen[thr[t1].fn] = "SCALAR"
        /\ supported = {}

\* C8, as stated: no step of any call writes shared state other than the
\* dispatcher's cached selection.
C8_OnlyTheCache ==
    [][UNCHANGED <<once, warnings, distmap, ib1, ib2>>]_vars

\* C8, corrected: every step of every call leaves the input buffers unchanged,
\* and the shared state written besides the dispatcher's cache is the static
\* counter once and stderr, and only by ComputeDistanceP calls that take the
\* slow path: such a call increments the counter once.
C8_CacheAndCounter ==
    [][/\ UNCHANGED <<distmap, ib1, ib2>>
       /\ (once' # once) =>
             \E t \in Threads :
                 /\ thr[t].pc = "body" /\ thr'[t].pc = "fetched"
                 /\ thr[t].fn = "ComputeDistanceP"
                 /\ ~IsFastP(thr[t].q)
                 /\ once' = FetchAdd1(once)
       /\ (warnings' # warnings) =>
             \E t \in Threads :
                 /\ thr[t].pc = "fetched" /\ thr'[t].pc = "idle"
                 /\ ~IsFastP(thr[t].q)
       /\ (chosen' # chosen) => \E t \in Threads : thr[t].pc = "choose"]_vars

C8_Witness ==
    /\ once = 1
    /\ warnings = 1
    /\ \E t \in Threads : thr[t].pc = "idle" /\ thr[t].out.path = "fast"
    /\ \E t \in Threads : thr[t].pc = "idle" /\ thr[t].out.path = "slow"
    /\ chosen["ComputeDistanceP"] # "unset"

====
